---- MODULE Spec2Model ----
(***************************************************************************)
(* ddup: duplicate-file detection on an NTFS volume and hardlink repair.   *)
(*                                                                         *)
(* The model follows one invocation of the ddup binary after another on    *)
(* the same volume: argument parsing and comparison selection              *)
(* (bin/ddup.rs), DirList::new with its three backends (dirlist.rs,        *)
(* everything.rs), the two-stage grouping pipeline algorithm::run          *)
(* (algorithm.rs) and the link action (bin/ddup.rs).                       *)
(*                                                                         *)
(* The volume is a map from full paths to inodes; an inode's bytes never   *)
(* change (the program only renames, links and unlinks).  Failures of the  *)
(* operating system and of the indexer service are injected               *)
(* nondeterministically, at most MaxFaults of them.                        *)
(***************************************************************************)
EXTENDS Integers, Sequences, FiniteSets, TLC

VARIABLES
    fs,           \* the volume: full path -> inode, Absent or Dir
    content,      \* inode -> bytes of the file
    runs,         \* number of invocations of the binary started so far
    faults,       \* number of injected failures so far
    pc,           \* position of main
    args,         \* parsed command line of the current invocation
    env,          \* what the outside world answers to this invocation
    comparison,   \* Comparison chosen by main
    log,          \* set of log records written by this invocation
    usnCalls,     \* number of times the USN branch of DirList::new ran
    entries,      \* DirList.entries
    map,          \* size -> paths (stage 1)
    keys,         \* size buckets not yet taken by a worker
    reduced,      \* size -> groups computed by a bucket worker, not yet pushed
    duplicates,   \* the mutex-guarded result vector
    result,       \* outcome of algorithm::run
    lw,           \* link workers: one per duplicate group
    ops,          \* file-system calls the link action has made (history)
    freed_space,  \* total reported by the link action
    searched,     \* what the indexer answered (history)
    failedPaths,  \* paths whose open or hash failed in stage 2 (history)
    fs0,          \* the volume when the link action started (history)
    prev,         \* the volume as the previous invocation left it (history)
    fz,           \* one call of calculate_fuzzy_hash, read by read
    bw,           \* stage 2, task by task: the bucket workers
    mutex         \* stage 2, task by task: the holder of the result mutex

vars == <<fs, content, runs, faults, pc, args, env, comparison, log, usnCalls,
          entries, map, keys, reduced, duplicates, result, lw, ops,
          freed_space, searched, failedPaths, fs0, prev, fz, bw, mutex>>

invocation == <<runs, args, env, comparison, prev>>
scanVars == <<usnCalls, entries, searched>>
pipeVars == <<map, keys, reduced, duplicates, failedPaths>>
linkVars == <<lw, ops, freed_space, fs0>>
fineVars == <<fz, bw, mutex>>

-----------------------------------------------------------------------------
(* Bounds *)

NumFiles == 4        \* files on the volume before the first invocation
MaxRuns == 2         \* invocations of the binary
MaxFaults == 2       \* injected failures
MaxBlocks == 8       \* whole buffers in a file whose sampling is followed
MaxDiffBlock == 3    \* last buffer in which the second file of a pair differs

(* Program constants *)

BufLen == 4096       \* buffer of calculate_hash / calculate_fuzzy_hash

-----------------------------------------------------------------------------
(* Paths.  A full path is <<drive, base, depth>>: the file `base` on the   *)
(* drive, followed by `depth` copies of the suffix ".ddup_tmp".            *)

Drive == "C:"
Bases == 1 .. NumFiles
MaxDepth == 1
Paths == {Drive} \X Bases \X (0 .. MaxDepth)
DirPath == <<Drive, 0, 0>>
Names == Paths \cup {DirPath}

Absent == 0
Dir == -1
Inodes == 1 .. NumFiles

\* format!("{}.ddup_tmp", path)
TmpPath(p) == <<p[1], p[2], p[3] + 1>>

\* the path without its drive letter "X:"
StripDrive(p) == <<p[2], p[3]>>

\* byte-wise string order on drive-less names: "a" < "a.ddup_tmp" < "b"
NameLess(a, b) == a[1] < b[1] \/ (a[1] = b[1] /\ a[2] < b[2])

PathLess(p, q) == NameLess(StripDrive(p), StripDrive(q))

IsFile(f, p) == f[p] \in Inodes

FilesOf(f) == {p \in Names : IsFile(f, p)}

-----------------------------------------------------------------------------
(* CRC-32/ISO-HDLC, the digest of both hash functions.  A 32-bit value is  *)
(* kept as <<high 16 bits, low 16 bits>>.                                  *)

RECURSIVE XorBits(_, _, _)
XorBits(a, b, n) ==
    IF n = 0 THEN 0
    ELSE (((a % 2) + (b % 2)) % 2) + 2 * XorBits(a \div 2, b \div 2, n - 1)

Xor32(a, b) == <<XorBits(a[1], b[1], 16), XorBits(a[2], b[2], 16)>>

Shr1(a) == <<a[1] \div 2, (a[2] \div 2) + (a[1] % 2) * 32768>>

CrcPoly == <<60856, 33568>>     \* 0xEDB88320
CrcMask == <<65535, 65535>>     \* 0xFFFFFFFF

RECURSIVE CrcShift(_, _)
CrcShift(crc, k) ==
    IF k = 0 THEN crc
    ELSE CrcShift(IF crc[2] % 2 = 1 THEN Xor32(Shr1(crc), CrcPoly)
                  ELSE Shr1(crc), k - 1)

RECURSIVE CrcUpdate(_, _)
CrcUpdate(crc, bytes) ==
    IF bytes = <<>> THEN crc
    ELSE CrcUpdate(CrcShift(Xor32(crc, <<0, Head(bytes)>>), 8), Tail(bytes))

CrcDigest == CrcMask

CrcFinalize(crc) == Xor32(crc, CrcMask)

-----------------------------------------------------------------------------
(* Hashing (algorithm.rs).  A hash result is <<TRUE, digest>> or the error *)
(* HashErr.                                                                *)

Min(a, b) == IF a < b THEN a ELSE b

HashErr == <<FALSE>>

\* the read loop of calculate_hash: chunks of at most BufLen bytes until a
\* read returns 0 bytes
RECURSIVE HashLoop(_, _)
HashLoop(crc, bytes) ==
    IF Len(bytes) = 0 THEN crc
    ELSE LET n == Min(Len(bytes), BufLen)
         IN  HashLoop(CrcUpdate(crc, SubSeq(bytes, 1, n)),
                      SubSeq(bytes, n + 1, Len(bytes)))

calculate_hash(bytes) == <<TRUE, CrcFinalize(HashLoop(CrcDigest, bytes))>>

\* a loop that also runs when exactly one buffer is left
LoopContinuesAtEnd(offset, size) == offset + BufLen <= size

\* while offset + (buffer.len() as u64) < size
LoopContinues(offset, size) == offset + BufLen < size

\* an offset that is doubled before the bytes read are added
NextOffsetDoubledFirst(offset, bytes_read) == offset * 2 + bytes_read

\* offset += bytes_read; offset *= 2
NextOffset(offset, bytes_read) == (offset + bytes_read) * 2

\* min(size, buffer.len() as u64)
TailSize(size) == Min(size, BufLen)

\* the sampling loop of calculate_fuzzy_hash; yields the digest state
RECURSIVE FuzzyLoop(_, _, _, _)
FuzzyLoop(crc, offset, size, bytes) ==
    IF LoopContinues(offset, size)
    THEN LET bytes_read == IF offset >= Len(bytes) THEN 0
                           ELSE Min(BufLen, Len(bytes) - offset)
         IN  IF bytes_read = 0 THEN crc
             ELSE FuzzyLoop(CrcUpdate(crc, SubSeq(bytes, offset + 1,
                                                  offset + bytes_read)),
                            NextOffset(offset, bytes_read), size, bytes)
    ELSE crc

\* `size` is the size DirList reported, `bytes` what the file holds now
calculate_fuzzy_hash(size, bytes) ==
    LET crc == FuzzyLoop(CrcDigest, 0, size, bytes)
        read_size == TailSize(size)
    IN  IF read_size > 0
        THEN IF read_size > Len(bytes)
             THEN HashErr       \* seek before the start of the file
             ELSE <<TRUE, CrcFinalize(CrcUpdate(crc,
                       SubSeq(bytes, Len(bytes) - read_size + 1, Len(bytes))))>>
        ELSE <<TRUE, CrcFinalize(crc)>>

-----------------------------------------------------------------------------
(* std::fs calls used by the link action.  Each has a precondition under   *)
(* which the operating system can carry it out, and an effect.             *)

\* a name with more than MaxDepth temp suffixes is longer than the volume
\* allows
CanRename(f, from, to) == to \in Names /\ f[from] # Absent /\ f[to] # Dir

Rename(f, from, to) == [f EXCEPT ![to] = f[from], ![from] = Absent]

CanHardLink(f, original, link) == IsFile(f, original) /\ f[link] = Absent

HardLink(f, original, link) == [f EXCEPT ![link] = f[original]]

CanRemoveFile(f, p) == IsFile(f, p)

RemoveFile(f, p) == [f EXCEPT ![p] = Absent]

\* std::fs::metadata(p).ok().filter(is_file).map(len)
FileLen(f, c, p) == Len(c[f[p]])

-----------------------------------------------------------------------------
(* Sequences and sets *)

Range(s) == {s[i] : i \in DOMAIN s}

RECURSIVE SortPaths(_)
SortPaths(S) ==
    IF S = {} THEN <<>>
    ELSE LET m == CHOOSE x \in S : \A y \in S \ {x} : PathLess(x, y)
         IN  <<m>> \o SortPaths(S \ {m})

Reverse(s) == [i \in 1 .. Len(s) |-> s[Len(s) + 1 - i]]

RECURSIVE SelectSeq2(_, _)
SelectSeq2(s, Keep) ==
    IF s = <<>> THEN <<>>
    ELSE (IF Head(s) \in Keep THEN <<Head(s)>> ELSE <<>>)
         \o SelectSeq2(Tail(s), Keep)

RECURSIVE SumSeq(_)
SumSeq(s) == IF s = <<>> THEN 0 ELSE Head(s) + SumSeq(Tail(s))

-----------------------------------------------------------------------------
(* Command line (bin/ddup.rs, parse_args) and the answers of the outside   *)
(* world to one invocation.                                                *)

Backends == {"Everything", "USN", "WizTree"}

\* --match: absent, a pattern such as `**/*.dmp`, or a pattern that
\* glob::Pattern::new rejects (such as `a***`)
Matchers == {"none", "glob", "bad"}

ArgSet ==
    {a \in [strict : BOOLEAN, link : BOOLEAN, backend : Backends,
            matcher : Matchers, i : BOOLEAN] :
        a.matcher # "glob" => ~a.i}

\* rev:     the order in which the enumeration source yields paths
\* service: how the indexer interprets the quoted matcher in its query
\* csv:     how the WizTree CSV relates to the volume
EnvSet(a) ==
    {e \in [rev : BOOLEAN, service : {"glob", "substr"},
            csv : {"exact", "stale", "bad"}] :
        /\ (a.backend # "WizTree" => e.csv = "exact")
        /\ (a.backend # "USN" => ~e.rev)
        /\ (a.backend # "Everything" \/ a.matcher = "none"
               => e.service = "glob")}

\* main: the MatchOptions handed to algorithm::run
case_sensitive(a) == IF a.matcher # "none" THEN ~a.i ELSE FALSE

\* a selection that forgets --link
SelectComparisonByStrict(a) == IF a.strict THEN "Strict" ELSE "Fuzzy"

\* main: the comparison method
SelectComparison(a) == IF a.strict \/ a.link THEN "Strict" ELSE "Fuzzy"

\* main: the warning of the comparison selection
ForceStrictWarning(a) ==
    IF (a.strict \/ a.link) /\ a.link /\ ~a.strict
    THEN {<<"warn", "forcing strict">>} ELSE {}

-----------------------------------------------------------------------------
(* Glob matching (glob crate).  The files 1 and 2 are named `a.dmp` and    *)
(* `b.dmp`, file 3 `c.DMP`, file 4 `d.dmp.bak`, any further file `x.txt`;  *)
(* the pattern is `**/*.dmp`.  A temp name ends in `.ddup_tmp` and is not  *)
(* matched.                                                                *)

GlobCompiles(m) == m # "bad"

GlobMatches(p, cs) == p[3] = 0 /\ (p[2] \in {1, 2} \/ (~cs /\ p[2] = 3))

\* pattern.as_ref().is_none_or(|pat| pat.matches_path_with(path, options))
PatternAccepts(m, p, cs) == m = "none" \/ GlobMatches(p, cs)

\* The indexer's own query language applied to `<drive>\ "<matcher>"`:
\* either it reads the matcher as the glob does, or it looks for `.dmp`
\* anywhere in the path (so that `d.dmp.bak` and `a.dmp.ddup_tmp` are
\* found as well).
ServiceMatches(m, p, cs, service) ==
    \/ m = "none"
    \/ service = "glob" /\ GlobMatches(p, cs)
    \/ service = "substr" /\ (p[2] \in {1, 2, 4} \/ (~cs /\ p[2] = 3))

-----------------------------------------------------------------------------
(* DirList (dirlist.rs, everything.rs) *)

Enumerate(S, rev) == IF rev THEN Reverse(SortPaths(S)) ELSE SortPaths(S)

Present(f) == {p \in Names : f[p] # Absent}

\* USN branch: join the drive, filter by the pattern, stat; statFail are the
\* paths whose metadata call fails
UsnEntries(f, c, a, e, statFail) ==
    LET paths == Enumerate(Present(f), e.rev)
        matched == SelectSeq2(paths,
                     {p \in Names : PatternAccepts(a.matcher, p, case_sensitive(a))})
        files == SelectSeq2(matched, {p \in Names : IsFile(f, p) /\ p \notin statFail})
    IN  [k \in 1 .. Len(files) |-> <<files[k], FileLen(f, c, files[k])>>]

\* EVERYTHING3_PROPERTY_ID_HARD_LINK_FILE_NAMES: the drive-less names of
\* every link of the file
HardLinkNames(f, p) == {StripDrive(q) : q \in {r \in Names : f[r] = f[p]}}

\* a hardlink check that keeps every result
IsLeaderAlways(f, p) == TRUE

\* the hardlink check of get_all_files: TRUE when the result is kept
IsLeader(f, p) ==
    LET names == HardLinkNames(f, p)
        hl_count == Cardinality(names)
    IN  hl_count > 1 =>
            LET first == CHOOSE n \in names : \A o \in names \ {n} : NameLess(n, o)
            IN  first = StripDrive(p)

\* EverythingSearch::get_all_files
get_all_files(f, c, a, e) ==
    LET results == Enumerate({p \in Present(f) :
                       ServiceMatches(a.matcher, p, case_sensitive(a), e.service)},
                             e.rev)
        kept == SelectSeq2(results, {p \in Names : f[p] # Dir /\ IsLeader(f, p)})
    IN  [k \in 1 .. Len(kept) |-> <<kept[k], FileLen(f, c, kept[k])>>]

\* The WizTree CSV: one record per file and directory of the volume.  The
\* Size field is a number, or Unparsable.  With csv = "stale" the first
\* file's size is out of date, with csv = "bad" it is not a number.
Unparsable == -1

CsvRecords(f, c, e) ==
    LET paths == SortPaths(Present(f))
        firstFile == CHOOSE k \in 1 .. Len(paths) :
                        /\ IsFile(f, paths[k])
                        /\ \A j \in 1 .. (k - 1) : ~IsFile(f, paths[j])
        field(k) ==
            IF f[paths[k]] = Dir THEN 1
            ELSE IF k = firstFile /\ e.csv = "stale" THEN FileLen(f, c, paths[k]) + 1
            ELSE IF k = firstFile /\ e.csv = "bad" THEN Unparsable
            ELSE FileLen(f, c, paths[k])
    IN  [k \in 1 .. Len(paths) |->
            [path |-> paths[k], backslash |-> f[paths[k]] = Dir, size |-> field(k)]]

\* a record filter without the test of the size
WizTreeKeepsEmpty(r, a) ==
    /\ r.size # Unparsable
    /\ ~r.backslash
    /\ PatternAccepts(a.matcher, r.path, case_sensitive(a))

\* the record loop of DirList::from_wiztree_csv
WizTreeKeeps(r, a) ==
    /\ r.size # Unparsable
    /\ r.size > 0
    /\ ~r.backslash
    /\ PatternAccepts(a.matcher, r.path, case_sensitive(a))

RECURSIVE WizTreeEntries(_, _)
WizTreeEntries(records, a) ==
    IF records = <<>> THEN <<>>
    ELSE (IF WizTreeKeeps(Head(records), a)
          THEN << <<Head(records).path, Head(records).size>> >> ELSE <<>>)
         \o WizTreeEntries(Tail(records), a)

-----------------------------------------------------------------------------
(* Initial state: NumFiles regular files, each with its own inode, and one *)
(* directory.  No invocation has started.                                  *)

Contents == {<<>>, <<1>>, <<2>>}

\* sizes a backend can report for these files (a stale CSV is one byte off)
Sizes == 0 .. 2

NoArgs == [strict |-> FALSE, link |-> FALSE, backend |-> "USN",
           matcher |-> "none", i |-> FALSE]

NoEnv == [rev |-> FALSE, service |-> "glob", csv |-> "exact"]

NoPrev == [valid |-> FALSE]

\* no call of calculate_fuzzy_hash is followed read by read
NoFuzzy == [step |-> "none"]

\* the result mutex is not locked
Free == <<>>

\* Only the equality of digests matters, so of two volumes that differ by
\* exchanging the bytes 1 and 2 one is enough: the first file that is not
\* empty holds <<1>>.
InitContents ==
    {c \in [Inodes -> Contents] :
        \A k \in Inodes : c[k] = <<2>> => \E j \in 1 .. (k - 1) : c[j] = <<1>>}

InitFs ==
    [p \in Names |->
        IF p = DirPath THEN Dir
        ELSE IF p[3] = 0 THEN p[2] ELSE Absent]

Init ==
    /\ fs = InitFs
    /\ content \in InitContents
    /\ runs = 0
    /\ faults = 0
    /\ pc = "start"
    /\ args = NoArgs
    /\ env = NoEnv
    /\ comparison = "Fuzzy"
    /\ log = {}
    /\ usnCalls = 0
    /\ entries = <<>>
    /\ map = <<>>
    /\ keys = {}
    /\ reduced = <<>>
    /\ duplicates = <<>>
    /\ result = "none"
    /\ lw = <<>>
    /\ ops = {}
    /\ freed_space = 0
    /\ searched = "none"
    /\ failedPaths = {}
    /\ fs0 = InitFs
    /\ prev = NoPrev
    /\ fz = NoFuzzy
    /\ bw = <<>>
    /\ mutex = Free

-----------------------------------------------------------------------------
(* main, up to the call of algorithm::run *)

\* everything main and run set up anew at the start of an invocation
StartOfMain(a, e) ==
    /\ runs' = runs + 1
    /\ args' = a
    /\ env' = e
    /\ comparison' = SelectComparison(a)
    /\ log' = ForceStrictWarning(a)
    /\ pc' = "dirlist"
    /\ usnCalls' = 0
    /\ entries' = <<>>
    /\ searched' = "none"
    /\ map' = <<>>
    /\ keys' = {}
    /\ reduced' = <<>>
    /\ duplicates' = <<>>
    /\ failedPaths' = {}
    /\ result' = "none"
    /\ lw' = <<>>
    /\ ops' = {}
    /\ freed_space' = 0
    /\ fs0' = fs
    /\ UNCHANGED <<fineVars, fs, content, faults>>

\* the first invocation, with any command line
MainStart ==
    /\ pc = "start"
    /\ runs < MaxRuns
    /\ \E a \in ArgSet : \E e \in EnvSet(a) : StartOfMain(a, e)
    /\ prev' = NoPrev

\* the same command line is run again on the volume that a --link run
\* without any failure has left
MainAgain ==
    /\ pc = "exit"
    /\ runs < MaxRuns
    /\ args.link
    /\ result = "ok"
    /\ faults = 0
    /\ StartOfMain(args, env)
    /\ prev' = [valid |-> TRUE, fs |-> fs, duplicates |-> duplicates,
                clean |-> \A op \in ops : op[3]]

\* run returns Err(e); main logs it and exits with status 1
RunFails(e) ==
    /\ result' = e
    /\ pc' = "exit"
    /\ log' = log \cup {<<"error", e>>}
    /\ UNCHANGED entries

\* an indexer failure handed to the caller instead of the fallback
FallBackIsError(warning) ==
    /\ log' = log \cup {<<"warn", warning>>}
    /\ pc' = "exit"
    /\ result' = "Everything"
    /\ UNCHANGED entries

\* DirList::new, Backend::Everything: the indexer could not answer, or
\* answered with nothing; the warning is logged and the USN branch is called
FallBack(warning) ==
    /\ log' = log \cup {<<"warn", warning>>}
    /\ pc' = "fallback"
    /\ UNCHANGED <<entries, result>>

\* DirList::new, Backend::Everything
DirListEverything ==
    /\ pc = "dirlist"
    /\ args.backend = "Everything"
    /\ \/ \* EverythingSearch::new() is None
          /\ faults < MaxFaults
          /\ faults' = faults + 1
          /\ searched' = "no service"
          /\ FallBack("service not found")
       \/ \* get_all_files is Err
          /\ faults < MaxFaults
          /\ faults' = faults + 1
          /\ searched' = "error"
          /\ FallBack("search error")
       \/ LET found == get_all_files(fs, content, args, env)
          IN  IF found # <<>>
              THEN /\ entries' = found
                   /\ pc' = "group"
                   /\ searched' = "some"
                   /\ UNCHANGED <<log, faults, result>>
              ELSE /\ searched' = "empty"
                   /\ FallBack("no results")
                   /\ UNCHANGED faults
    /\ UNCHANGED <<fineVars, fs, content, invocation, usnCalls, pipeVars, linkVars>>

\* DirList::new, Backend::USN (called by main or as the fallback)
DirListUSN ==
    /\ \/ pc = "dirlist" /\ args.backend = "USN"
       \/ pc = "fallback"
    /\ usnCalls' = usnCalls + 1
    /\ \/ \* Volume::open fails
          /\ faults < MaxFaults
          /\ faults' = faults + 1
          /\ RunFails("VolumeOpen")
       \/ \* query_usn_journal fails
          /\ faults < MaxFaults
          /\ faults' = faults + 1
          /\ RunFails("UsnJournalQuery")
       \/ /\ ~GlobCompiles(args.matcher)
          /\ RunFails("Glob")
          /\ UNCHANGED faults
       \/ /\ GlobCompiles(args.matcher)
          /\ \E statFail \in SUBSET FilesOf(fs) :
                /\ faults + Cardinality(statFail) <= MaxFaults
                /\ faults' = faults + Cardinality(statFail)
                /\ entries' = UsnEntries(fs, content, args, env, statFail)
          /\ pc' = "group"
          /\ UNCHANGED <<log, result>>
    /\ UNCHANGED <<fineVars, fs, content, invocation, searched, pipeVars, linkVars>>

\* DirList::new, Backend::WizTree (DirList::from_wiztree_csv)
DirListWizTree ==
    /\ pc = "dirlist"
    /\ args.backend = "WizTree"
    /\ \/ /\ ~GlobCompiles(args.matcher)
          /\ RunFails("Glob")
          /\ UNCHANGED faults
       \/ \* the CSV file cannot be opened
          /\ GlobCompiles(args.matcher)
          /\ faults < MaxFaults
          /\ faults' = faults + 1
          /\ RunFails("VolumeOpen")
       \/ \* the header line, the CSV header or a record cannot be read
          /\ GlobCompiles(args.matcher)
          /\ faults < MaxFaults
          /\ faults' = faults + 1
          /\ RunFails("LockPoison")
       \/ /\ GlobCompiles(args.matcher)
          /\ entries' = WizTreeEntries(CsvRecords(fs, content, env), args)
          /\ pc' = "group"
          /\ UNCHANGED <<log, result, faults>>
    /\ UNCHANGED <<fineVars, fs, content, invocation, usnCalls, searched, pipeVars, linkVars>>

-----------------------------------------------------------------------------
(* algorithm::run after DirList::new *)

\* a fold that pushes every path under every size
BucketAnySize(es, size) == [k \in DOMAIN es |-> es[k][1]]

\* the paths of the entries of one size, in the order of the entries
RECURSIVE Bucket(_, _)
Bucket(es, size) ==
    IF es = <<>> THEN <<>>
    ELSE (IF Head(es)[2] = size THEN <<Head(es)[1]>> ELSE <<>>)
         \o Bucket(Tail(es), size)

\* stage 1: fold the entries into size -> paths, retain the buckets with
\* more than one path
SizeMap(es) ==
    LET sizes == {es[k][2] : k \in DOMAIN es}
        kept == {s \in sizes : Len(Bucket(es, s)) > 1}
    IN  [s \in kept |-> Bucket(es, s)]

GroupBySize ==
    /\ pc = "group"
    /\ map' = SizeMap(entries)
    /\ keys' = DOMAIN SizeMap(entries)
    /\ reduced' = <<>>
    /\ duplicates' = <<>>
    /\ pc' = "hash"
    /\ UNCHANGED <<fineVars, fs, content, faults, log, result, invocation, scanVars,
                   failedPaths, linkVars>>

\* the two hash functions on the files and sizes of the model
StrictHashes == [bytes \in Contents |-> calculate_hash(bytes)]

FuzzyHashes == [size \in Sizes, bytes \in Contents |-> calculate_fuzzy_hash(size, bytes)]

\* the closure run for one path of a bucket: open, then hash; failed are
\* the paths on which open or a read fails
HashOf(f, c, cmp, size, path, failed) ==
    IF ~IsFile(f, path) \/ path \in failed THEN HashErr
    ELSE IF cmp = "Fuzzy" THEN FuzzyHashes[size, c[f[path]]]
    ELSE StrictHashes[c[f[path]]]

\* the paths of one hash, in the order of the bucket
RECURSIVE SameHash(_, _, _)
SameHash(paths, hashOf, h) ==
    IF paths = <<>> THEN <<>>
    ELSE (IF hashOf[Head(paths)] = h THEN <<Head(paths)>> ELSE <<>>)
         \o SameHash(Tail(paths), hashOf, h)

\* a retain that also drops the groups of two
RetainGroupOverTwo(g) == Len(g) > 2

\* a retain that drops nothing
RetainGroupAny(g) == Len(g) > 0

\* reduced_map.retain(|_, v| v.len() > 1)
RetainGroup(g) == Len(g) > 1

\* reduced_groups of one bucket: group the paths hashed successfully by
\* hash, retain the groups with more than one path
ReducedGroups(f, c, cmp, size, paths, failed) ==
    IF Len(paths) > 1
    THEN LET hashOf == [p \in Range(paths) |-> HashOf(f, c, cmp, size, p, failed)]
             hashes == {hashOf[p] : p \in Range(paths)} \ {HashErr}
             groups == {SameHash(paths, hashOf, h) : h \in hashes}
         IN  {g \in groups : RetainGroup(g)}
    ELSE {}

\* a bucket worker takes a size and hashes its paths
HashBucket(size) ==
    /\ pc = "hash"
    /\ size \in keys
    /\ keys' = keys \ {size}
    /\ \E failed \in SUBSET Range(map[size]) :
          /\ faults + Cardinality(failed) <= MaxFaults
          /\ faults' = faults + Cardinality(failed)
          /\ failedPaths' = failedPaths \cup failed
          /\ reduced' = reduced @@
                (size :> ReducedGroups(fs, content, comparison, size,
                                       map[size], failed))
    /\ UNCHANGED <<fineVars, fs, content, pc, log, result, invocation, scanVars, map,
                   duplicates, linkVars>>

\* Path::to_string_lossy: every path of the volume is well-formed Unicode
to_string_lossy(p) == p

DuplicateGroup(size, paths) ==
    [size |-> size, paths |-> [k \in DOMAIN paths |-> to_string_lossy(paths[k])]]

\* a bucket worker locks the result vector and pushes one of its groups
PushGroup(size) ==
    /\ pc = "hash"
    /\ size \in DOMAIN reduced
    /\ \E g \in reduced[size] :
          /\ duplicates' = Append(duplicates, DuplicateGroup(size, g))
          /\ reduced' = [reduced EXCEPT ![size] = @ \ {g}]
    /\ UNCHANGED <<fineVars, fs, content, faults, pc, log, result, invocation, scanVars,
                   map, keys, failedPaths, linkVars>>

\* the link worker of a group starts at its second path
StartWorker(group) ==
    [i |-> 2, step |-> IF Len(group.paths) >= 2 THEN "rename" ELSE "done",
     freed |-> 0]

\* every worker is done: run returns Ok(duplicates); main goes on to the
\* link action when --link is set
RunReturns ==
    /\ pc = "hash"
    /\ keys = {}
    /\ \A s \in DOMAIN reduced : reduced[s] = {}
    /\ result' = "ok"
    /\ IF args.link
       THEN /\ pc' = "link"
            /\ lw' = [g \in DOMAIN duplicates |-> StartWorker(duplicates[g])]
       ELSE /\ pc' = "exit"
            /\ UNCHANGED lw
    /\ UNCHANGED <<fineVars, fs, content, faults, log, invocation, scanVars, pipeVars,
                   ops, freed_space, fs0>>

-----------------------------------------------------------------------------
(* The link action of main.  The worker of a group walks paths[1..]; for   *)
(* each path it is at one of the calls rename, hard_link, remove_file or   *)
(* the restoring rename.                                                   *)

\* a `break` in the place of the `continue`
ContinueIsBreak(w, group) == [w EXCEPT !.i = Len(group.paths) + 1, !.step = "done"]

\* a total that is overwritten instead of added to
CountFreedOverwrites(w, size) == [w EXCEPT !.freed = size]

\* the next iteration of `for path in &group.paths[1..]`
NextPath(w, group) ==
    IF w.i + 1 > Len(group.paths)
    THEN [w EXCEPT !.i = w.i + 1, !.step = "done"]
    ELSE [w EXCEPT !.i = w.i + 1, !.step = "rename"]

\* `continue` after a failed rename
Continue(w, group) == NextPath(w, group)

\* group_freed += group.size
CountFreed(w, size) == [w EXCEPT !.freed = @ + size]

\* a failed hard_link after which the backup is deleted
OnHardLinkErrorDeletes(w) == [w EXCEPT !.step = "remove_file"]

\* the Err branch of fs::hard_link: go on to restore the original
OnHardLinkError(w) == [w EXCEPT !.step = "restore"]

\* a restore that renames the backup onto itself
RestoreTargetIsTmp(path, tmp_path) == tmp_path

\* the target of the restoring rename
RestoreTarget(path, tmp_path) == path

linkFrame == <<fineVars, content, pc, result, invocation, scanVars, pipeVars,
               freed_space, fs0>>

\* fs::rename(path, &tmp_path)
LinkRename(g) ==
    /\ pc = "link"
    /\ g \in DOMAIN lw
    /\ lw[g].step = "rename"
    /\ LET path == duplicates[g].paths[lw[g].i]
           tmp_path == TmpPath(path)
       IN  \/ /\ CanRename(fs, path, tmp_path)
              /\ fs' = Rename(fs, path, tmp_path)
              /\ lw' = [lw EXCEPT ![g].step = "hard_link"]
              /\ ops' = ops \cup {<<"rename", path, TRUE>>}
              /\ UNCHANGED <<log, faults>>
           \/ /\ ~CanRename(fs, path, tmp_path) \/ faults < MaxFaults
              /\ faults' = IF CanRename(fs, path, tmp_path) THEN faults + 1 ELSE faults
              /\ log' = log \cup {<<"error", "move failed", path>>}
              /\ lw' = [lw EXCEPT ![g] = Continue(@, duplicates[g])]
              /\ ops' = ops \cup {<<"rename", path, FALSE>>}
              /\ UNCHANGED fs
    /\ UNCHANGED linkFrame

\* fs::hard_link(first, path)
LinkHardLink(g) ==
    /\ pc = "link"
    /\ g \in DOMAIN lw
    /\ lw[g].step = "hard_link"
    /\ LET path == duplicates[g].paths[lw[g].i]
           first == duplicates[g].paths[1]
       IN  \/ /\ CanHardLink(fs, first, path)
              /\ fs' = HardLink(fs, first, path)
              /\ lw' = [lw EXCEPT ![g].step = "remove_file"]
              /\ ops' = ops \cup {<<"hard_link", path, TRUE>>}
              /\ UNCHANGED <<log, faults>>
           \/ /\ ~CanHardLink(fs, first, path) \/ faults < MaxFaults
              /\ faults' = IF CanHardLink(fs, first, path) THEN faults + 1 ELSE faults
              /\ log' = log \cup {<<"error", "link failed", path>>}
              /\ lw' = [lw EXCEPT ![g] = OnHardLinkError(@)]
              /\ ops' = ops \cup {<<"hard_link", path, FALSE>>}
              /\ UNCHANGED fs
    /\ UNCHANGED linkFrame

\* fs::rename(&tmp_path, path) after a failed hard_link
LinkRestore(g) ==
    /\ pc = "link"
    /\ g \in DOMAIN lw
    /\ lw[g].step = "restore"
    /\ LET path == duplicates[g].paths[lw[g].i]
           tmp_path == TmpPath(path)
           target == RestoreTarget(path, tmp_path)
       IN  \/ /\ CanRename(fs, tmp_path, target)
              /\ fs' = Rename(fs, tmp_path, target)
              /\ ops' = ops \cup {<<"restore", path, TRUE>>}
              /\ UNCHANGED <<log, faults>>
           \/ /\ ~CanRename(fs, tmp_path, target) \/ faults < MaxFaults
              /\ faults' = IF CanRename(fs, tmp_path, target) THEN faults + 1 ELSE faults
              /\ log' = log \cup {<<"error", "CRITICAL", path>>}
              /\ ops' = ops \cup {<<"restore", path, FALSE>>}
              /\ UNCHANGED fs
    /\ lw' = [lw EXCEPT ![g] = NextPath(@, duplicates[g])]
    /\ UNCHANGED linkFrame

\* fs::remove_file(&tmp_path) after a successful hard_link
LinkRemove(g) ==
    /\ pc = "link"
    /\ g \in DOMAIN lw
    /\ lw[g].step = "remove_file"
    /\ LET path == duplicates[g].paths[lw[g].i]
           tmp_path == TmpPath(path)
       IN  \/ /\ CanRemoveFile(fs, tmp_path)
              /\ fs' = RemoveFile(fs, tmp_path)
              /\ lw' = [lw EXCEPT ![g] =
                          NextPath(CountFreed(@, duplicates[g].size), duplicates[g])]
              /\ ops' = ops \cup {<<"remove_file", path, TRUE>>}
              /\ UNCHANGED <<log, faults>>
           \/ /\ ~CanRemoveFile(fs, tmp_path) \/ faults < MaxFaults
              /\ faults' = IF CanRemoveFile(fs, tmp_path) THEN faults + 1 ELSE faults
              /\ log' = log \cup {<<"warn", "backup not removed", path>>}
              /\ lw' = [lw EXCEPT ![g] = NextPath(@, duplicates[g])]
              /\ ops' = ops \cup {<<"remove_file", path, FALSE>>}
              /\ UNCHANGED fs
    /\ UNCHANGED linkFrame

\* .sum() of the group totals, once every group is done
LinkSum ==
    /\ pc = "link"
    /\ \A g \in DOMAIN lw : lw[g].step = "done"
    /\ freed_space' = SumSeq([g \in DOMAIN lw |-> lw[g].freed])
    /\ pc' = "exit"
    /\ UNCHANGED <<fineVars, fs, content, faults, log, result, invocation, scanVars,
                   pipeVars, lw, ops, fs0>>

-----------------------------------------------------------------------------

Groups == 1 .. (NumFiles \div 2)

LinkStep ==
    \/ \E g \in Groups : LinkRename(g)
    \/ \E g \in Groups : LinkHardLink(g)
    \/ \E g \in Groups : LinkRestore(g)
    \/ \E g \in Groups : LinkRemove(g)
    \/ LinkSum

Next ==
    \/ MainStart
    \/ MainAgain
    \/ DirListEverything
    \/ DirListUSN
    \/ DirListWizTree
    \/ GroupBySize
    \/ \E size \in Sizes : HashBucket(size)
    \/ \E size \in Sizes : PushGroup(size)
    \/ RunReturns
    \/ \E g \in Groups : LinkRename(g)
    \/ \E g \in Groups : LinkHardLink(g)
    \/ \E g \in Groups : LinkRestore(g)
    \/ \E g \in Groups : LinkRemove(g)
    \/ LinkSum

Spec == Init /\ [][Next]_vars

-----------------------------------------------------------------------------
(* The same program on a volume that has been used before: two names are   *)
(* already hardlinks of one file, or an earlier link action has left the   *)
(* backup of a path it linked.  The files `a` and `b` hold the same bytes. *)

\* the last two files are two names of one file
LinkedVolume == [InitFs EXCEPT ![<<Drive, NumFiles, 0>>] = NumFiles - 1]

\* `b` was linked to `a` and the deletion of its backup failed
BackupVolume == [InitFs EXCEPT ![<<Drive, 2, 0>>] = 1, ![<<Drive, 2, 1>>] = 2]

UsedVolumes == {LinkedVolume, BackupVolume}

InitUsed ==
    /\ fs \in UsedVolumes
    /\ content \in {c \in InitContents :
                      /\ c[1] = c[2]
                      /\ fs = LinkedVolume => c[NumFiles] = c[NumFiles - 1]}
    /\ runs = 0
    /\ faults = 0
    /\ pc = "start"
    /\ args = NoArgs
    /\ env = NoEnv
    /\ comparison = "Fuzzy"
    /\ log = {}
    /\ usnCalls = 0
    /\ entries = <<>>
    /\ map = <<>>
    /\ keys = {}
    /\ reduced = <<>>
    /\ duplicates = <<>>
    /\ result = "none"
    /\ lw = <<>>
    /\ ops = {}
    /\ freed_space = 0
    /\ searched = "none"
    /\ failedPaths = {}
    /\ fs0 = fs
    /\ prev = NoPrev
    /\ fz = NoFuzzy
    /\ bw = <<>>
    /\ mutex = Free

SpecUsed == InitUsed /\ [][Next]_vars

-----------------------------------------------------------------------------
(* calculate_fuzzy_hash read by read, on a pair of files `big` and `big2`  *)
(* of the same size.  `big2` differs from `big` in every byte of the       *)
(* buffers `diff` and in no other byte.  `chunks` lists the byte ranges    *)
(* <<start, length>> of `big` handed to the digest so far, `same` tells    *)
(* whether the bytes of `big2` in these ranges are the same.  The files    *)
(* have the size DirList reported.                                         *)

mainVars == <<fs, content, runs, faults, pc, args, env, comparison, log,
              usnCalls, entries, map, keys, reduced, duplicates, result, lw,
              ops, freed_space, searched, failedPaths, fs0, prev>>

\* 0, 1 and 4095 bytes more than a number of whole buffers, and 16 MiB
FuzzySizes ==
    {k * BufLen + r : k \in 0 .. MaxBlocks, r \in {0, 1, BufLen - 1}}
        \cup {BufLen * BufLen}

DiffSets(size) ==
    {{}} \cup {{d} : d \in {b \in 0 .. MaxDiffBlock : (b + 1) * BufLen <= size}}

\* the byte range <<start, len>> holds a byte of one of the buffers
Touches(blocks, start, len) ==
    \E d \in blocks : start < (d + 1) * BufLen /\ d * BufLen < start + len

\* digest.update(&buffer[..n]) with the bytes read at `start`
DigestUpdate(f, start, n) ==
    [f EXCEPT !.chunks = Append(@, <<start, n>>),
              !.same = @ /\ ~Touches(f.diff, start, n)]

InitFuzzy ==
    /\ fs = InitFs
    /\ content = [k \in Inodes |-> <<>>]
    /\ runs = 0
    /\ faults = 0
    /\ pc = "start"
    /\ args = NoArgs
    /\ env = NoEnv
    /\ comparison = "Fuzzy"
    /\ log = {}
    /\ usnCalls = 0
    /\ entries = <<>>
    /\ map = <<>>
    /\ keys = {}
    /\ reduced = <<>>
    /\ duplicates = <<>>
    /\ result = "none"
    /\ lw = <<>>
    /\ ops = {}
    /\ freed_space = 0
    /\ searched = "none"
    /\ failedPaths = {}
    /\ fs0 = fs
    /\ prev = NoPrev
    /\ bw = <<>>
    /\ mutex = Free
    /\ \E size \in FuzzySizes : \E diff \in DiffSets(size) :
          fz = [step |-> "loop", size |-> size, diff |-> diff, offset |-> 0,
                chunks |-> <<>>, same |-> TRUE]

\* one turn of the while loop: seek to offset, read, update, move on
FuzzyRead ==
    /\ fz.step = "loop"
    /\ LoopContinues(fz.offset, fz.size)
    /\ LET bytes_read == IF fz.offset >= fz.size THEN 0
                         ELSE Min(BufLen, fz.size - fz.offset)
       IN  IF bytes_read = 0
           THEN fz' = [fz EXCEPT !.step = "tail"]
           ELSE fz' = [DigestUpdate(fz, fz.offset, bytes_read)
                         EXCEPT !.offset = NextOffset(fz.offset, bytes_read)]
    /\ UNCHANGED <<mainVars, bw, mutex>>

\* the loop condition is false
FuzzyLoopEnds ==
    /\ fz.step = "loop"
    /\ ~LoopContinues(fz.offset, fz.size)
    /\ fz' = [fz EXCEPT !.step = "tail"]
    /\ UNCHANGED <<mainVars, bw, mutex>>

\* the last chunk: seek to read_size bytes before the end, read_exact
FuzzyLastChunk ==
    /\ fz.step = "tail"
    /\ LET read_size == TailSize(fz.size)
       IN  IF read_size > 0
           THEN fz' = [DigestUpdate(fz, fz.size - read_size, read_size)
                         EXCEPT !.step = "done"]
           ELSE fz' = [fz EXCEPT !.step = "done"]
    /\ UNCHANGED <<mainVars, bw, mutex>>

NextFuzzy ==
    \/ FuzzyRead
    \/ FuzzyLoopEnds
    \/ FuzzyLastChunk

SpecFuzzy == InitFuzzy /\ [][NextFuzzy]_vars

\* the call runs on: no read blocks for ever
SpecFuzzyLive == SpecFuzzy /\ WF_vars(NextFuzzy)

-----------------------------------------------------------------------------
(* Stage 2 of algorithm::run task by task: keys.par_iter().for_each runs   *)
(* one worker per size bucket, each worker hashes its paths in parallel    *)
(* tasks, groups them by hash and pushes its groups one by one onto the    *)
(* result vector, which a mutex guards.  bw[size] is the worker of the     *)
(* bucket: its step, the hash of every path (Pending until its task has    *)
(* run), the groups it has still to push and the group it is pushing.      *)

\* the hash task of the path has not run yet
Pending == <<>>

NoGroup == <<>>

stage2Frame == <<fz, fs, content, runs, args, env, comparison, log, usnCalls,
                 entries, map, lw, ops, freed_space, searched, fs0, prev>>

InitStage2 ==
    /\ fs = InitFs
    /\ content \in InitContents
    /\ runs = 1
    /\ faults = 0
    /\ pc = "hash"
    /\ args = NoArgs
    /\ env = NoEnv
    /\ comparison \in {"Fuzzy", "Strict"}
    /\ log = {}
    /\ usnCalls = 1
    /\ entries = UsnEntries(fs, content, args, env, {})
    /\ map = SizeMap(entries)
    /\ keys = DOMAIN map
    /\ reduced = <<>>
    /\ duplicates = <<>>
    /\ result = "none"
    /\ lw = <<>>
    /\ ops = {}
    /\ freed_space = 0
    /\ searched = "none"
    /\ failedPaths = {}
    /\ fs0 = fs
    /\ prev = NoPrev
    /\ fz = NoFuzzy
    /\ bw = [size \in DOMAIN map |->
               [step |-> "wait",
                hashes |-> [p \in Range(map[size]) |-> Pending],
                groups |-> {},
                cur |-> NoGroup]]
    /\ mutex = Free

\* a thread of the pool starts the closure for one size
StartBucket(size) ==
    /\ pc = "hash"
    /\ size \in keys
    /\ keys' = keys \ {size}
    /\ bw' = [bw EXCEPT ![size].step = "hash"]
    /\ UNCHANGED <<stage2Frame, faults, pc, reduced, duplicates, result,
                   failedPaths, mutex>>

\* the task of one path: open the file and hash it, or fail
HashTask(size, path) ==
    /\ pc = "hash"
    /\ size \in DOMAIN bw
    /\ bw[size].step = "hash"
    /\ path \in DOMAIN bw[size].hashes
    /\ bw[size].hashes[path] = Pending
    /\ \/ /\ bw' = [bw EXCEPT ![size].hashes[path] =
                        HashOf(fs, content, comparison, size, path, {})]
          /\ UNCHANGED <<faults, failedPaths>>
       \/ /\ faults < MaxFaults
          /\ faults' = faults + 1
          /\ failedPaths' = failedPaths \cup {path}
          /\ bw' = [bw EXCEPT ![size].hashes[path] = HashErr]
    /\ UNCHANGED <<stage2Frame, pc, keys, reduced, duplicates, result, mutex>>

\* every task of the bucket has run: group by hash, retain
GroupLocally(size) ==
    /\ pc = "hash"
    /\ size \in DOMAIN bw
    /\ bw[size].step = "hash"
    /\ \A p \in DOMAIN bw[size].hashes : bw[size].hashes[p] # Pending
    /\ LET hashOf == bw[size].hashes
           hashes == {hashOf[p] : p \in DOMAIN hashOf} \ {HashErr}
           groups == {SameHash(map[size], hashOf, h) : h \in hashes}
       IN  bw' = [bw EXCEPT ![size].groups = {g \in groups : RetainGroup(g)},
                            ![size].step = "loop"]
    /\ UNCHANGED <<stage2Frame, faults, pc, keys, reduced, duplicates, result,
                   failedPaths, mutex>>

\* duplicates.lock(): the worker takes the mutex for its next group
Lock(size) ==
    /\ pc = "hash"
    /\ size \in DOMAIN bw
    /\ bw[size].step = "loop"
    /\ mutex = Free
    /\ \E g \in bw[size].groups :
          bw' = [bw EXCEPT ![size].cur = g, ![size].step = "push"]
    /\ mutex' = <<size>>
    /\ UNCHANGED <<stage2Frame, faults, pc, keys, reduced, duplicates, result,
                   failedPaths>>

\* a push that replaces what the vector holds
guard_push_replace(vec, group) == <<group>>

\* guard.push(group)
guard_push(vec, group) == Append(vec, group)

\* a guard that is not dropped
UnlockNever(holder) == holder

\* the guard goes out of scope
Unlock(holder) == Free

\* the worker pushes the group and drops the guard
PushAndUnlock(size) ==
    /\ pc = "hash"
    /\ size \in DOMAIN bw
    /\ bw[size].step = "push"
    /\ mutex = <<size>>
    /\ duplicates' = guard_push(duplicates, DuplicateGroup(size, bw[size].cur))
    /\ mutex' = Unlock(mutex)
    /\ bw' = [bw EXCEPT ![size].groups = @ \ {bw[size].cur},
                        ![size].cur = NoGroup,
                        ![size].step = "loop"]
    /\ UNCHANGED <<stage2Frame, faults, pc, keys, reduced, result, failedPaths>>

\* the worker has pushed all its groups
BucketDone(size) ==
    /\ pc = "hash"
    /\ size \in DOMAIN bw
    /\ bw[size].step = "loop"
    /\ bw[size].groups = {}
    /\ bw' = [bw EXCEPT ![size].step = "done"]
    /\ UNCHANGED <<stage2Frame, faults, pc, keys, reduced, duplicates, result,
                   failedPaths, mutex>>

\* for_each has returned: duplicates.into_inner()
Stage2Returns ==
    /\ pc = "hash"
    /\ \A size \in DOMAIN bw : bw[size].step = "done"
    /\ result' = "ok"
    /\ pc' = "exit"
    /\ UNCHANGED <<stage2Frame, faults, keys, reduced, duplicates, failedPaths,
                   bw, mutex>>

NextStage2 ==
    \/ \E size \in Sizes : StartBucket(size)
    \/ \E size \in Sizes : \E path \in Paths : HashTask(size, path)
    \/ \E size \in Sizes : GroupLocally(size)
    \/ \E size \in Sizes : Lock(size)
    \/ \E size \in Sizes : PushAndUnlock(size)
    \/ \E size \in Sizes : BucketDone(size)
    \/ Stage2Returns

SpecStage2 == InitStage2 /\ [][NextStage2]_vars

\* the groups stage 2 makes of the pair: equal bytes in the digest give
\* equal hashes; the digests of different bytes are taken to differ
PairGroups(same) ==
    LET groups == IF same THEN {<<"big", "big2">>} ELSE {<<"big">>, <<"big2">>}
    IN  {g \in groups : RetainGroup(g)}

-----------------------------------------------------------------------------
(* Vocabulary of the properties *)

\* the link action has started in this invocation
LinkPhase == args.link /\ result = "ok" /\ pc \in {"link", "exit"}

\* <<g, i>>: the i-th path of group g, i >= 2
NonCanonical ==
    {gi \in (DOMAIN duplicates) \X (2 .. NumFiles) : gi[2] <= Len(duplicates[gi[1]].paths)}

PathAt(gi) == duplicates[gi[1]].paths[gi[2]]

FirstOf(gi) == duplicates[gi[1]].paths[1]

\* the worker of the group has not yet called rename on the path
NotStarted(gi) ==
    lw[gi[1]].i < gi[2] \/ (lw[gi[1]].i = gi[2] /\ lw[gi[1]].step = "rename")

\* the worker of the group is past the path
Finished(gi) == lw[gi[1]].i > gi[2]

NoTmpFiles(f) == \A p \in Paths : p[3] > 0 => f[p] = Absent

InSameGroup(p, q) ==
    \E g \in DOMAIN duplicates : {p, q} \subseteq Range(duplicates[g].paths)

\* the two paths held files of identical bytes when the scan ran
SameBytes(p, q) ==
    /\ IsFile(fs0, p)
    /\ IsFile(fs0, q)
    /\ content[fs0[p]] = content[fs0[q]]

-----------------------------------------------------------------------------
(* C1  Crash safety of the link action *)

\* C1 as stated: during and after the link action every non-canonical path
\* P holds the original file or a hardlink to the canonical file, and no
\* P.ddup_tmp remains once the action on P has finished.
C1_AlwaysAtPath ==
    LinkPhase =>
        \A gi \in NonCanonical :
            /\ fs[PathAt(gi)] \in Inodes
            /\ fs[PathAt(gi)] \in {fs0[PathAt(gi)], fs[FirstOf(gi)]}
            /\ Finished(gi) => fs[TmpPath(PathAt(gi))] = Absent

\* C1 amended: on a volume without temp-named files, in every state of the
\* link action the original file of a non-canonical path P is at P or at
\* P.ddup_tmp, or P is a hardlink to the canonical file; P is missing only between its rename and the hard_link or
\* restore that follows, or after a failed restore; a backup remains after
\* the action on P only if its deletion or the restore failed.
C1_NeverLost ==
    LinkPhase /\ NoTmpFiles(fs0) =>
        \A gi \in NonCanonical :
            LET P == PathAt(gi)
                T == TmpPath(P)
                w == lw[gi[1]]
            IN  /\ fs[FirstOf(gi)] = fs0[FirstOf(gi)]
                /\ \/ fs[P] = fs0[P]
                   \/ fs[P] = fs[FirstOf(gi)]
                   \/ fs[P] = Absent /\ fs[T] = fs0[P]
                /\ fs[P] = Absent =>
                      \/ w.i = gi[2] /\ w.step \in {"hard_link", "restore"}
                      \/ <<"restore", P, FALSE>> \in ops
                /\ NotStarted(gi) => fs[P] = fs0[P] /\ fs[T] = Absent
                /\ Finished(gi) /\ fs[T] # Absent =>
                      \/ <<"remove_file", P, FALSE>> \in ops
                      \/ <<"restore", P, FALSE>> \in ops

\* a restore has failed: P is gone, its original is kept under the temp name
C1_Witness ==
    /\ LinkPhase
    /\ \E gi \in NonCanonical :
          /\ Finished(gi)
          /\ <<"restore", PathAt(gi), FALSE>> \in ops
          /\ fs[PathAt(gi)] = Absent
          /\ fs[TmpPath(PathAt(gi))] = fs0[PathAt(gi)]

-----------------------------------------------------------------------------
(* C2  No false negatives under strict comparison *)

-----------------------------------------------------------------------------
(* C3  No singleton groups *)

\* C3: every group a bucket worker computes and every group of the result
\* has at least two paths, whatever failed.
C3_NoSingletonGroups ==
    /\ \A g \in DOMAIN duplicates : Len(duplicates[g].paths) >= 2
    /\ \A s \in DOMAIN reduced : \A g \in reduced[s] : Len(g) >= 2

\* a bucket of two lost one path to a failure and gave no group, while
\* another bucket gave one
C3_Witness ==
    /\ result = "ok"
    /\ duplicates # <<>>
    /\ \E s \in DOMAIN map :
          /\ Len(map[s]) = 2
          /\ Cardinality(Range(map[s]) \cap failedPaths) = 1
          /\ \A g \in DOMAIN duplicates : duplicates[g].size # s

-----------------------------------------------------------------------------
(* C4  Size coherence *)

\* C4: every path of a group was listed by DirList with the size of the
\* group, and with no other size.
C4_SizeCoherence ==
    \A g \in DOMAIN duplicates :
        \A p \in Range(duplicates[g].paths) :
            /\ \E k \in DOMAIN entries : entries[k] = <<p, duplicates[g].size>>
            /\ \A k \in DOMAIN entries :
                  entries[k][1] = p => entries[k][2] = duplicates[g].size

\* a group was returned from entries of more than one size
C4_Witness ==
    /\ result = "ok"
    /\ duplicates # <<>>
    /\ \E j, k \in DOMAIN entries : entries[j][2] # entries[k][2]

-----------------------------------------------------------------------------
(* C5  Linking is strict-only *)

\* C5: --link always runs the pipeline with Strict, Fuzzy is used only when
\* neither flag is set, the warning is logged exactly for --link without
\* --strict, and the link action only ever runs on Strict groups.
C5_LinkIsStrict ==
    pc # "start" =>
        /\ args.link => comparison = "Strict"
        /\ comparison = "Fuzzy" <=> (~args.strict /\ ~args.link)
        /\ comparison \in {"Fuzzy", "Strict"}
        /\ <<"warn", "forcing strict">> \in log <=> (args.link /\ ~args.strict)
        /\ pc = "link" \/ ops # {} => args.link /\ comparison = "Strict"

\* the link action works on groups of a run with --link and without --strict
C5_Witness ==
    /\ pc = "link"
    /\ args.link
    /\ ~args.strict
    /\ ops # {}
    /\ <<"warn", "forcing strict">> \in log

-----------------------------------------------------------------------------
(* C6  Everything fallback *)

EverythingFailed == searched \in {"no service", "error", "empty"}

\* C6: with backend Everything, DirList::new goes to the USN branch exactly
\* when the service is not found, the search fails or it returns nothing;
\* the branch then runs with the same matcher and options, at most once;
\* the only errors the caller sees are those of the USN branch; and when the
\* search returns an entry the USN branch is not run.
C6_EverythingFallback ==
    args.backend = "Everything" /\ pc \notin {"start", "dirlist"} =>
        /\ usnCalls <= 1
        /\ searched # "none"
        /\ EverythingFailed <=> (pc = "fallback" \/ usnCalls = 1)
        /\ pc = "fallback" => usnCalls = 0 /\ result = "none" /\ ENABLED DirListUSN
        /\ result \notin {"none", "ok"} =>
              usnCalls = 1 /\ result \in {"VolumeOpen", "UsnJournalQuery", "Glob"}
        /\ usnCalls = 1 /\ pc \in {"group", "hash", "link"} =>
              \E statFail \in SUBSET FilesOf(fs0) :
                  entries = UsnEntries(fs0, content, args, env, statFail)
        /\ searched = "some" =>
              /\ usnCalls = 0
              /\ entries # <<>>
              /\ entries = get_all_files(fs0, content, args, env)

\* the search failed and the USN branch has supplied the entries
C6_Witness ==
    /\ args.backend = "Everything"
    /\ searched = "error"
    /\ usnCalls = 1
    /\ pc = "group"
    /\ entries # <<>>

-----------------------------------------------------------------------------
(* C7  Glob filtering *)

\* C7 as stated: with a matcher, every entry of the DirList is a path the
\* compiled glob accepts under the match options, whatever the backend.
C7_EveryEntryMatches ==
    pc \in {"group", "hash", "link", "exit"} /\ args.matcher # "none" =>
        \A k \in DOMAIN entries :
            /\ GlobCompiles(args.matcher)
            /\ GlobMatches(entries[k][1], case_sensitive(args))

-----------------------------------------------------------------------------
(* C8  Hardlink idempotence *)

\* a second run of the same command line has ended, without any failure in
\* either run
SecondRunDone ==
    /\ prev.valid
    /\ prev.clean
    /\ pc = "exit"
    /\ result = "ok"
    /\ faults = 0
    /\ \A op \in ops : op[3]

GroupSets(d) == {Range(d[g].paths) : g \in DOMAIN d}

-----------------------------------------------------------------------------
(* C9  Freed-space accounting *)

LinkDone == args.link /\ result = "ok" /\ pc = "exit"

\* the number of non-canonical paths of group g on which the call `op`
\* succeeded
Succeeded(op, g) ==
    Cardinality({i \in 2 .. Len(duplicates[g].paths) :
                    <<op, duplicates[g].paths[i], TRUE>> \in ops})

\* C9 as stated: the total is the sum of group.size over the non-canonical
\* paths whose hardlink creation succeeded.
C9_FreedPerHardLink ==
    LinkDone =>
        freed_space = SumSeq([g \in DOMAIN duplicates |->
                                duplicates[g].size * Succeeded("hard_link", g)])

\* C9 amended: the total is the sum of group.size over the non-canonical
\* paths whose hardlink creation and whose backup deletion both succeeded,
\* each counted once; a path whose rename, hardlink or backup deletion
\* failed contributes nothing.
C9_FreedPerRemovedBackup ==
    LinkDone =>
        /\ freed_space = SumSeq([g \in DOMAIN duplicates |->
                                   duplicates[g].size * Succeeded("remove_file", g)])
        /\ \A gi \in NonCanonical :
              <<"remove_file", PathAt(gi), TRUE>> \in ops
                  => <<"hard_link", PathAt(gi), TRUE>> \in ops

\* one path of a group was linked and counted, another was linked but its
\* backup could not be deleted
C9_Witness ==
    /\ LinkDone
    /\ freed_space > 0
    /\ \E gi \in NonCanonical :
          /\ <<"hard_link", PathAt(gi), TRUE>> \in ops
          /\ <<"remove_file", PathAt(gi), FALSE>> \in ops

-----------------------------------------------------------------------------
(* C10  Per-file link failures do not abort the batch *)

\* C10: the link action is never stuck; the worker of a group has called
\* rename on every path it is past, whatever failed before; and when the
\* link action has ended it has done so for every non-canonical path.
C10_BatchNotAborted ==
    /\ pc = "link" => ENABLED LinkStep
    /\ LinkPhase =>
          \A gi \in NonCanonical :
              /\ Finished(gi) =>
                    \E ok \in BOOLEAN : <<"rename", PathAt(gi), ok>> \in ops
              /\ pc = "exit" => Finished(gi)

\* a path was tried after the rename of an earlier path of its group failed
\* and after the restore of another earlier path failed
C10_Witness ==
    /\ LinkDone
    /\ \E gi, gj \in NonCanonical :
          /\ gi[1] = gj[1]
          /\ gi[2] < gj[2]
          /\ \/ <<"rename", PathAt(gi), FALSE>> \in ops
             \/ <<"hard_link", PathAt(gi), FALSE>> \in ops
          /\ <<"rename", PathAt(gj), TRUE>> \in ops

-----------------------------------------------------------------------------
(* C11  Hardlink collapse *)

\* what the indexer answers to the query, before get_all_files filters it
SearchResults(f, a, e) ==
    {p \in Present(f) : ServiceMatches(a.matcher, p, case_sensitive(a), e.service)}

\* the names of the file that p names
Siblings(f, p) == {q \in Names : f[q] = f[p]}

\* C11 as stated: when the entries come from the indexer, of the names of
\* every file with more than one name that the indexer returns exactly one
\* is an entry, the one that is first in the sorted list of the names; so
\* no two names of one file are entries and none share a group.
C11_ExactlyOneSibling ==
    searched = "some" /\ pc \in {"group", "hash", "link", "exit"} =>
        \A p \in SearchResults(fs0, args, env) :
            IsFile(fs0, p) /\ Cardinality(Siblings(fs0, p)) > 1 =>
                /\ \E q \in Siblings(fs0, p) :
                      /\ \E k \in DOMAIN entries : entries[k][1] = q
                      /\ \A o \in Siblings(fs0, p) \ {q} :
                            /\ PathLess(q, o)
                            /\ \A k \in DOMAIN entries : entries[k][1] # o
                /\ \A q \in Siblings(fs0, p) \ {p} : ~InSameGroup(p, q)

-----------------------------------------------------------------------------
(* C12  Empty files *)

\* the files of the volume that hold no bytes
EmptyFiles(f, c) == {p \in FilesOf(f) : c[f[p]] = <<>>}

GroupsOfSize(size) == {g \in DOMAIN duplicates : duplicates[g].size = size}

\* C12 as stated: whatever the backend, when the source lists the files of
\* the volume as they are and nothing fails, two or more empty files are
\* returned as the one group of size 0.
C12_EmptyFilesGrouped ==
    /\ runs = 1
    /\ result = "ok"
    /\ faults = 0
    /\ args.matcher = "none"
    /\ env.csv = "exact"
    /\ Cardinality(EmptyFiles(fs0, content)) >= 2
    => /\ Cardinality(GroupsOfSize(0)) = 1
       /\ \A g \in GroupsOfSize(0) :
             Range(duplicates[g].paths) = EmptyFiles(fs0, content)

-----------------------------------------------------------------------------
(* C13  Fuzzy mode and a difference in bytes [4096, 8192) *)

\* the call has returned for a pair of files of 16 MiB
BigPairDone == fz.step = "done" /\ fz.size = BufLen * BufLen

\* C13 as stated: for two files of 16 MiB that differ only in bytes
\* [4096, 8192) the fuzzy hash samples the difference, and the two are not
\* in a common group.
C13_DifferenceSampled ==
    BigPairDone /\ fz.diff = {1} =>
        /\ ~fz.same
        /\ PairGroups(fz.same) = {}

\* C13 amended: for two files of 16 MiB the fuzzy hash reads the buffers at
\* 0, 8192, 24576, ... and the last 4096 bytes; bytes [4096, 8192) are
\* never read, so two files that differ only there have the same fuzzy
\* hash and are returned as one group, while a difference in bytes
\* [0, 4096) or [8192, 12288) is read.
C13_SecondBufferNotSampled ==
    BigPairDone =>
        /\ fz.same <=> fz.diff \cap {0, 2, 6, 14} = {}
        /\ fz.diff = {1} =>
              /\ \A k \in DOMAIN fz.chunks :
                    fz.chunks[k][1] + fz.chunks[k][2] <= BufLen
                        \/ fz.chunks[k][1] >= 2 * BufLen
              /\ PairGroups(fz.same) = {<<"big", "big2">>}
        /\ fz.diff \in {{0}, {2}} => PairGroups(fz.same) = {}

\* the pair that differs only in bytes [4096, 8192) has been hashed
C13_Witness ==
    /\ BigPairDone
    /\ fz.diff = {1}
    /\ Len(fz.chunks) > 2
    /\ fz.same

-----------------------------------------------------------------------------
(* C17  Fuzzy sampling schedule *)

\* the samples of the schedule: o = 0; while o + C < size: [o, o + C),
\* o <- 2 * (o + C); with C = 4096
RECURSIVE ScheduleSamples(_, _)
ScheduleSamples(o, size) ==
    IF o + 4096 < size
    THEN << <<o, 4096>> >> \o ScheduleSamples(2 * (o + 4096), size)
    ELSE <<>>

\* the last min(C, size) bytes
ScheduleTail(size) ==
    LET n == IF size < 4096 THEN size ELSE 4096
    IN  IF n > 0 THEN << <<size - n, n>> >> ELSE <<>>

Schedule(size) == ScheduleSamples(0, size) \o ScheduleTail(size)

IsPrefix(s, t) == Len(s) <= Len(t) /\ s = SubSeq(t, 1, Len(s))

\* C17: for every size, calculate_fuzzy_hash hands the digest the chunks of
\* the schedule, in its order, and no other bytes; and the call ends.
C17_SamplingSchedule ==
    /\ [](fz.step # "none" => IsPrefix(fz.chunks, Schedule(fz.size)))
    /\ [](fz.step = "done" => fz.chunks = Schedule(fz.size))
    /\ <>(fz.step = "done")

\* a file that takes three turns of the loop and whose last chunk overlaps
\* the last sample has been hashed
C17_Witness ==
    /\ fz.step = "done"
    /\ Len(fz.chunks) = 4
    /\ fz.chunks[4][1] < fz.chunks[3][1] + fz.chunks[3][2]

-----------------------------------------------------------------------------
(* C14  Sizes of the entries *)

EntriesOfSize(size) == {k \in DOMAIN entries : entries[k][2] = size}

\* stage 1 has run on the entries
Bucketed == pc \in {"hash", "link"} \/ (pc = "exit" /\ result = "ok")

\* C14 as stated: every entry DirList hands to the pipeline has a size
\* above 0, whatever the backend.
C14_AllSizesPositive ==
    \A k \in DOMAIN entries : entries[k][2] > 0

\* C14 amended: every entry of the WizTree backend has a size above 0, its
\* reader drops the records of size 0; the USN and Everything backends
\* hand every file over with its length, the empty files with size 0, and
\* stage 1 buckets two or more of them under size 0.
C14_WizTreeSizesPositive ==
    /\ args.backend = "WizTree" => \A k \in DOMAIN entries : entries[k][2] > 0
    /\ args.backend # "WizTree" =>
          \A k \in DOMAIN entries :
              /\ IsFile(fs0, entries[k][1])
              /\ entries[k][2] = FileLen(fs0, content, entries[k][1])
    /\ Bucketed /\ Cardinality(EntriesOfSize(0)) >= 2 =>
          /\ 0 \in DOMAIN map
          /\ Range(map[0]) = {entries[k][1] : k \in EntriesOfSize(0)}

\* the CSV reader has dropped an empty file and kept another file
C14_Witness ==
    /\ args.backend = "WizTree"
    /\ pc = "group"
    /\ entries # <<>>
    /\ \E p \in EmptyFiles(fs0, content) :
          \A k \in DOMAIN entries : entries[k][1] # p

-----------------------------------------------------------------------------
(* C15  Restore on a failed hardlink *)

\* the worker of the group is about to rename the backup of the path back
AtRestore(gi) == lw[gi[1]].i = gi[2] /\ lw[gi[1]].step = "restore"

\* C15: after rename succeeded and hard_link failed on P the link action
\* renames P.ddup_tmp back to P, and does so in no other case; it never
\* deletes the backup of such a P and counts nothing for it; after a
\* restore that succeeded P is the original file again and no backup is
\* left; after one that failed the backup still holds the original and
\* the failure is logged as CRITICAL.
C15_RestoreOnFailedLink ==
    LinkPhase =>
        \A gi \in NonCanonical :
            LET P == PathAt(gi)
                T == TmpPath(P)
            IN  /\ <<"hard_link", P, FALSE>> \in ops =>
                      /\ <<"rename", P, TRUE>> \in ops
                      /\ \/ AtRestore(gi)
                         \/ <<"restore", P, TRUE>> \in ops
                         \/ <<"restore", P, FALSE>> \in ops
                      /\ AtRestore(gi) => ENABLED LinkRestore(gi[1])
                      /\ <<"remove_file", P, TRUE>> \notin ops
                      /\ <<"remove_file", P, FALSE>> \notin ops
                      /\ lw[gi[1]].freed =
                            duplicates[gi[1]].size * Succeeded("remove_file", gi[1])
                /\ AtRestore(gi) \/ (\E ok \in BOOLEAN : <<"restore", P, ok>> \in ops)
                      => <<"hard_link", P, FALSE>> \in ops
                /\ <<"restore", P, TRUE>> \in ops =>
                      /\ Finished(gi)
                      /\ fs[P] = fs0[P]
                      /\ fs[T] = Absent
                      /\ <<"error", "CRITICAL", P>> \notin log
                /\ <<"restore", P, FALSE>> \in ops =>
                      /\ Finished(gi)
                      /\ fs[P] = Absent
                      /\ fs[T] = fs0[P]
                      /\ <<"error", "CRITICAL", P>> \in log

\* the link action has ended; one path was restored after its hard_link
\* failed and nothing was counted for its group
C15_Witness ==
    /\ LinkDone
    /\ \E gi \in NonCanonical :
          /\ <<"hard_link", PathAt(gi), FALSE>> \in ops
          /\ <<"restore", PathAt(gi), TRUE>> \in ops
          /\ fs[PathAt(gi)] = fs0[PathAt(gi)]
          /\ lw[gi[1]].freed = 0

-----------------------------------------------------------------------------
(* C16  Lock discipline in stage 2 *)

\* the worker that holds the mutex
Holder == mutex[1]

\* C16: in every interleaving of the bucket workers and the hash tasks,
\* the worker that holds the mutex has run all its hash tasks and is at the
\* push of one group; while the mutex is held, a hash task that runs is a
\* task of another worker, and the only step of the holder is the push of
\* that one group, with which it gives the mutex up; the push is always
\* possible, so no worker waits for the mutex while its holder does I/O.
C16_LockOnlyToAppend ==
    /\ [](mutex # Free =>
            /\ bw[Holder].step = "push"
            /\ bw[Holder].cur \in bw[Holder].groups
            /\ \A p \in DOMAIN bw[Holder].hashes : bw[Holder].hashes[p] # Pending
            /\ ENABLED PushAndUnlock(Holder))
    /\ [](\A size \in DOMAIN bw : bw[size].step = "push" => mutex = <<size>>)
    /\ [][mutex # Free =>
            /\ bw'[Holder].hashes = bw[Holder].hashes
            /\ bw'[Holder] # bw[Holder] =>
                  /\ mutex' = Free
                  /\ duplicates' =
                        Append(duplicates, DuplicateGroup(Holder, bw[Holder].cur))
            /\ mutex' # mutex => mutex' = Free /\ bw'[Holder] # bw[Holder]]_vars

\* one worker holds the mutex while another is in the middle of its hash
\* tasks
C16_Witness ==
    /\ mutex # Free
    /\ \E size \in DOMAIN bw :
          /\ size # Holder
          /\ bw[size].step = "hash"
          /\ \E p, q \in DOMAIN bw[size].hashes :
                bw[size].hashes[p] = Pending /\ bw[size].hashes[q] # Pending

-----------------------------------------------------------------------------
(* C18  No lost or duplicated groups *)

\* the paths of the bucket whose hash task failed
FailedIn(size) == {p \in DOMAIN bw[size].hashes : bw[size].hashes[p] = HashErr}

\* the groups of all buckets, as functions of the entries and the failures
ComputedGroups ==
    UNION {{DuplicateGroup(size, g) :
               g \in ReducedGroups(fs, content, comparison, size, map[size],
                                   FailedIn(size))} : size \in DOMAIN map}

\* C18: in every interleaving the vector never holds a group twice and no
\* path is in two of its groups; when run returns, the vector holds every
\* group computed by every bucket worker exactly once and nothing else, so
\* that only the order of the groups depends on the interleaving.
C18_GroupsExactlyOnce ==
    /\ \A j, k \in DOMAIN duplicates :
          j # k => Range(duplicates[j].paths) \cap Range(duplicates[k].paths) = {}
    /\ Range(entries) # {} =>
          \A g \in DOMAIN duplicates :
              Range(duplicates[g].paths) \subseteq {e[1] : e \in Range(entries)}
    /\ result = "ok" =>
          /\ Range(duplicates) = ComputedGroups
          /\ Len(duplicates) = Cardinality(ComputedGroups)

\* run has returned two groups of two buckets, that of the larger size
\* first
C18_Witness ==
    /\ result = "ok"
    /\ Len(duplicates) = 2
    /\ duplicates[1].size > duplicates[2].size

-----------------------------------------------------------------------------
(* C19  Frame of the link action *)

NonCanonicalPaths == {PathAt(gi) : gi \in NonCanonical}

CanonicalPaths == {duplicates[g].paths[1] : g \in DOMAIN duplicates}

\* C19 as stated: the link action changes the volume only at the
\* non-canonical paths P of the groups and at their temp names P.ddup_tmp;
\* the canonical path of every group names the same file throughout; and
\* a file that was at some P.ddup_tmp before the run is still there.
C19_LinkFrame ==
    LinkPhase =>
        /\ \A p \in Names :
              fs[p] # fs0[p] =>
                  \/ p \in NonCanonicalPaths
                  \/ \E q \in NonCanonicalPaths : p = TmpPath(q)
        /\ \A p \in CanonicalPaths : fs[p] = fs0[p]
        /\ \A q \in NonCanonicalPaths :
              TmpPath(q) \in Names /\ fs0[TmpPath(q)] # Absent
                  => fs[TmpPath(q)] = fs0[TmpPath(q)]

====
